---------------------------- MODULE Spec2Model ----------------------------
(***************************************************************************)
(* The OTP issuance-and-verification state machine of astro-server         *)
(* (src/src/auth/services/otp_service.py) and the authentication           *)
(* orchestrator that drives it (src/src/auth/services/auth_service.py).    *)
(*                                                                         *)
(* The otp_codes table is shared storage.  Every request runs in its own   *)
(* database session: a SELECT copies rows into the session, attribute      *)
(* assignments change the copy, and `await db.commit()` writes the changed *)
(* columns back by primary key.  Every `await` is a point where another    *)
(* request may run, so each handler is cut into one step per storage round *)
(* trip.  The sessions keep their objects across commit                    *)
(* (expire_on_commit=False, src/test/conftest.py:58-60): verify_otp reads  *)
(* otp_record.otp and otp_record.attempts after a commit without a         *)
(* refresh, which an async session only permits in that configuration.     *)
(*                                                                         *)
(* The users table is the second shared table: verify_otp_and_authenticate *)
(* reads and writes it after a successful verify_otp.                      *)
(***************************************************************************)
EXTENDS Integers, FiniteSets, Sequences, TLC

(* ----------------------------- bounds --------------------------------- *)
MaxProcs == 2
MaxRecords == 2
MaxCode == 1
MaxTime == 20
ClockStep == 10
MaxTokenTime == 740
MaxSessions == 1      \* chat sessions ever created
MaxMessages == 2      \* chat messages ever added

(* ------------------------ program constants ---------------------------- *)
otp_expire_minutes == 10
otp_max_attempts == 5
jwt_access_token_expire_minutes == 720

Procs == 1..MaxProcs
Emails == {"a@x.com", "b@x.com"}
Codes == 0..MaxCode

VARIABLES
    otp_codes,     \* the otp_codes table: a set of OTPCode rows
    now,           \* datetime.utcnow(), in minutes
    next_id,       \* primary keys handed out so far + 1
    identities,    \* the emails the clients present
    serial,        \* TRUE: one client, calls one after another;
                   \* FALSE: every slot makes one call, the calls overlap
    pc,            \* per request slot: the await it is suspended at
    op,            \* per request slot: the operation it runs
    email,         \* per request slot: the email argument
    plain_otp,     \* per request slot: plain_otp (argument or generated)
    otp_record,    \* per request slot: the session's OTPCode object
    otp_records,   \* per request slot: primary keys a SELECT returned
    ret,           \* per request slot: the value returned (or raised)
    users,         \* the users table: a set of User rows
    token_response, \* per request slot: the TokenResponse returned, if any
    user_details,  \* the user_details table: the users that have a row
    current_user,  \* what the last get_current_user call gave
    bypass_otp_validation, \* settings.bypass_otp_validation
    chat_sessions, \* the chat_sessions table: a set of ChatSession rows
    chat_messages, \* the chat_messages table: a set of ChatMessage rows
    chat_result,   \* what the last ChatService call returned
    chat_next_id   \* the uuid4() values handed out so far + 1, per table

chat_vars == <<chat_sessions, chat_messages, chat_result, chat_next_id>>

vars == <<otp_codes, now, next_id, identities, serial, pc, op, email, plain_otp,
          otp_record, otp_records, ret, users, token_response, user_details,
          current_user, bypass_otp_validation, chat_vars>>

(* ------------------------------ values --------------------------------- *)
NoRecord == [id |-> 0, email |-> "", otp |-> 0, expires_at |-> 0,
             attempts |-> 0, is_used |-> FALSE, created_at |-> 0]

NoRet == [ok |-> FALSE, msg |-> "", n |-> 0, raised |-> FALSE]

\* No access token.
NoAccessToken == [sub |-> "", exp |-> 0, signed |-> FALSE]

\* token_response = None
NoToken == [access_token |-> NoAccessToken, token_type |-> "", expires_in |-> 0,
            user |-> ""]

\* get_session returned None.
NoSession == [id |-> 0, user_id |-> "", title |-> ""]

\* A ChatService call and what it returned: its session_id and user_id
\* arguments, the session (or None), the list of messages, the bool of
\* delete_session.
ChatResult(o, sid, u, s, ms, b) ==
    [op |-> o, session_id |-> sid, user_id |-> u, session |-> s,
     messages |-> ms, ok |-> b]

\* No ChatService call has returned.
NoChatResult == ChatResult("none", 0, "", NoSession, {}, FALSE)

\* get_current_user has not been called.
NoCurrentUser == [ok |-> FALSE, detail |-> "", user |-> ""]

MsgNotFound == "No valid OTP found for this email"
MsgExpired == "OTP has expired"
MsgExceeded == "Maximum verification attempts exceeded"
MsgInvalidRemaining == "Invalid OTP. n attempts remaining"
MsgInvalidMaxed == "Invalid OTP. Maximum attempts exceeded"
MsgSendFailed == "Failed to send OTP email"
MsgSendError == "An error occurred while sending OTP"

Returned(ok, msg, n) == [ok |-> ok, msg |-> msg, n |-> n, raised |-> FALSE]
Raised(exc) == [ok |-> FALSE, msg |-> exc, n |-> 0, raised |-> TRUE]

(* --------------------------- pure functions ---------------------------- *)
\* hashlib.sha256(otp.encode()).hexdigest(): deterministic, and free of
\* collisions on the code space of the model (an affine map modulo a prime).
HashOtp(otp) == (5 * otp + 3) % 7

\* Variants of _verify_otp_hash with a slip: the plaintext compared unhashed,
\* and only the last bit of the digests compared.
VerifyOtpHashPlain(plain, hashed) == plain = hashed
VerifyOtpHashTruncated(plain, hashed) == (HashOtp(plain) % 2) = (hashed % 2)

\* hashlib.sha256(plain_otp.encode()).hexdigest() == hashed_otp
VerifyOtpHash(plain, hashed) == HashOtp(plain) = hashed

\* Variant of the expiry check with the comparison reversed.
IsExpiredReversed(r, t) == t < r.expires_at

\* datetime.utcnow() > otp_record.expires_at
IsExpired(r, t) == t > r.expires_at

\* Variant of the attempt-limit check that trips one attempt early.
AttemptsExceededEarly(r) == r.attempts >= otp_max_attempts - 1

\* Variant of the attempt-limit check with a strict comparison.
AttemptsExceededStrict(r) == r.attempts > otp_max_attempts

\* otp_record.attempts >= self.otp_max_attempts
AttemptsExceeded(r) == r.attempts >= otp_max_attempts

\* Variant of remaining_attempts that is off by one.
RemainingAttemptsOffByOne(r) == otp_max_attempts - r.attempts + 1

\* Variant of remaining_attempts that leaves the attempts made uncounted.
RemainingAttemptsUncounted(r) == otp_max_attempts

\* self.otp_max_attempts - otp_record.attempts
RemainingAttempts(r) == otp_max_attempts - r.attempts

(* --------------------------- storage queries --------------------------- *)
\* Variant of the SELECT without the is_used filter.
UnusedOtpsAnyFlag(table, e) == {r \in table : r.email = e}

\* Variant of the SELECT without the email filter.
UnusedOtpsAnyEmail(table, e) == {r \in table : ~r.is_used}

\* WHERE email = :email AND is_used = false
UnusedOtps(table, e) == {r \in table : r.email = e /\ ~r.is_used}

\* Variant of the SELECT that also takes rows expiring at this instant.
ExpiredOtpsInclusive(table, t) == {r \in table : r.expires_at <= t}

\* WHERE expires_at < :now
ExpiredOtps(table, t) == {r \in table : r.expires_at < t}

Ids(rows) == {r.id : r \in rows}

RowExists(table, id) == \E r \in table : r.id = id

\* Variant of the is_used write-back that is never committed.
SetUsedLost(table, ids) == table

\* UPDATE otp_codes SET is_used = true WHERE id IN ids
SetUsed(table, ids) ==
    {IF r.id \in ids THEN [r EXCEPT !.is_used = TRUE] ELSE r : r \in table}

\* UPDATE otp_codes SET attempts = :attempts WHERE id = :id
SetAttempts(table, id, n) ==
    {IF r.id = id THEN [r EXCEPT !.attempts = n] ELSE r : r \in table}

(* ----------------------------- scheduling ------------------------------ *)
Idle(p) == pc[p] \in {"idle", "done"}

\* A new request may start in slot p: the single client's next call when the
\* calls are serial, the slot's one call when the calls race.
MayStart(p) == IF serial THEN p = 1 /\ Idle(p) ELSE pc[p] = "idle"

Finish(p, r) == /\ pc' = [pc EXCEPT ![p] = "done"]
                /\ ret' = [ret EXCEPT ![p] = r]

Begin(p, o, e, c) == /\ op' = [op EXCEPT ![p] = o]
                     /\ email' = [email EXCEPT ![p] = e]
                     /\ plain_otp' = [plain_otp EXCEPT ![p] = c]
                     /\ token_response' = [token_response EXCEPT ![p] = NoToken]

(* ------------------- OTPService.create_otp / send_otp ------------------ *)
\* Variant of the SELECT with the is_used filter inverted.
InvalidateSelectionUsed(table, e) ==
    Ids({r \in table : r.email = e /\ r.is_used})

\* _invalidate_previous_otps, the SELECT: the unused rows of the email.
InvalidateSelection(table, e) == Ids(UnusedOtps(table, e))

\* Variant of the new record that expires the moment it is created.
NewOtpRecordNoTtl(id, e, c, t) ==
    [id |-> id, email |-> e, otp |-> HashOtp(c), expires_at |-> t,
     attempts |-> 0, is_used |-> FALSE, created_at |-> t]

\* The OTPCode object create_otp builds.
NewOtpRecord(id, e, c, t) ==
    [id |-> id, email |-> e, otp |-> HashOtp(c),
     expires_at |-> t + otp_expire_minutes,
     attempts |-> 0, is_used |-> FALSE, created_at |-> t]

\* send_otp -> create_otp -> _invalidate_previous_otps: await db.execute(stmt)
SendOtp_Select(p, e) ==
    /\ MayStart(p)
    /\ next_id <= MaxRecords
    /\ Begin(p, "send_otp", e, 0)
    /\ otp_records' = [otp_records EXCEPT ![p] = InvalidateSelection(otp_codes, e)]
    /\ otp_record' = [otp_record EXCEPT ![p] = NoRecord]
    /\ ret' = [ret EXCEPT ![p] = NoRet]
    /\ pc' = [pc EXCEPT ![p] = "invalidate"]
    /\ UNCHANGED <<otp_codes, now, next_id, identities, serial, users,
                   user_details, current_user, bypass_otp_validation, chat_vars>>

\* _invalidate_previous_otps: is_used = True on each selected row, commit.
\* An UPDATE by primary key that matches no row raises StaleDataError, which
\* send_otp's `except Exception` turns into the generic failure.
SendOtp_Invalidate(p) ==
    /\ pc[p] = "invalidate"
    /\ IF \A id \in otp_records[p] : RowExists(otp_codes, id)
       THEN /\ otp_codes' = SetUsed(otp_codes, otp_records[p])
            /\ pc' = [pc EXCEPT ![p] = "insert"]
            /\ ret' = ret
       ELSE /\ otp_codes' = otp_codes
            /\ Finish(p, Returned(FALSE, MsgSendError, 0))
    /\ UNCHANGED <<now, next_id, identities, serial, op, email, plain_otp, otp_record,
                   otp_records, users, token_response,
                   user_details, current_user, bypass_otp_validation, chat_vars>>

\* create_otp: _generate_otp, _hash_otp, expires_at, db.add, commit.
SendOtp_Insert(p) ==
    /\ pc[p] = "insert"
    /\ \E c \in Codes :
         LET new == NewOtpRecord(next_id, email[p], c, now) IN
         /\ otp_codes' = otp_codes \cup {new}
         /\ plain_otp' = [plain_otp EXCEPT ![p] = c]
         /\ otp_record' = [otp_record EXCEPT ![p] = new]
    /\ next_id' = next_id + 1
    /\ pc' = [pc EXCEPT ![p] = "refresh"]
    /\ UNCHANGED <<now, identities, serial, op, email, otp_records, ret,
                   users, token_response,
                   user_details, current_user, bypass_otp_validation, chat_vars>>

\* create_otp: await db.refresh(otp_record); then send_otp hands the
\* plaintext to email_service.send_otp_email, which returns True or False.
SendOtp_Deliver(p) ==
    /\ pc[p] = "refresh"
    /\ IF RowExists(otp_codes, otp_record[p].id)
       THEN \E email_sent \in BOOLEAN :
              Finish(p, IF email_sent
                        THEN Returned(TRUE, "", otp_expire_minutes)
                        ELSE Returned(FALSE, MsgSendFailed, 0))
       ELSE Finish(p, Returned(FALSE, MsgSendError, 0))
    /\ UNCHANGED <<otp_codes, now, next_id, identities, serial, op, email, plain_otp,
                   otp_record, otp_records,
                   users, token_response,
                   user_details, current_user, bypass_otp_validation, chat_vars>>

(* ------------------------ OTPService.verify_otp ------------------------ *)
\* What verify_otp does with the rows its SELECT returned, up to its first
\* commit: the suspension point, the session's object and the result so far.
VerifyDecision(rows, t) ==
    IF rows = {} THEN
        [pc |-> "done", rec |-> NoRecord, ret |-> Returned(FALSE, MsgNotFound, 0)]
    ELSE IF Cardinality(rows) > 1 THEN
        \* result.scalar_one_or_none() raises on more than one row
        [pc |-> "done", rec |-> NoRecord, ret |-> Raised("MultipleResultsFound")]
    ELSE LET r == CHOOSE x \in rows : TRUE IN
        IF IsExpired(r, t) THEN
            [pc |-> "mark_used", rec |-> [r EXCEPT !.is_used = TRUE],
             ret |-> Returned(FALSE, MsgExpired, 0)]
        ELSE IF AttemptsExceeded(r) THEN
            [pc |-> "mark_used", rec |-> [r EXCEPT !.is_used = TRUE],
             ret |-> Returned(FALSE, MsgExceeded, 0)]
        ELSE
            [pc |-> "increment", rec |-> [r EXCEPT !.attempts = r.attempts + 1],
             ret |-> NoRet]

\* verify_otp: await db.execute(stmt), scalar_one_or_none, the expiry check
\* and the attempt-limit check.
VerifyOtp_Select(p, e, c) ==
    /\ MayStart(p)
    /\ Begin(p, "verify_otp", e, c)
    /\ LET d == VerifyDecision(UnusedOtps(otp_codes, e), now) IN
         /\ pc' = [pc EXCEPT ![p] = d.pc]
         /\ otp_record' = [otp_record EXCEPT ![p] = d.rec]
         /\ ret' = [ret EXCEPT ![p] = d.ret]
    /\ otp_records' = [otp_records EXCEPT ![p] = {}]
    /\ UNCHANGED <<otp_codes, now, next_id, identities, serial, users,
                   user_details, current_user, bypass_otp_validation, chat_vars>>

CompareDecisionLimitFirst(rec, c) ==
    IF RemainingAttempts(rec) <= 0 THEN
        [pc |-> "mark_used", rec |-> [rec EXCEPT !.is_used = TRUE],
         ret |-> Returned(FALSE, MsgInvalidMaxed, 0)]
    ELSE IF VerifyOtpHash(c, rec.otp) THEN
        [pc |-> "mark_used", rec |-> [rec EXCEPT !.is_used = TRUE],
         ret |-> Returned(TRUE, "", 0)]
    ELSE
        [pc |-> "done", rec |-> rec,
         ret |-> Returned(FALSE, MsgInvalidRemaining, RemainingAttempts(rec))]

\* What verify_otp does after the attempts commit: the digest comparison.
CompareDecision(rec, c) ==
    IF VerifyOtpHash(c, rec.otp) THEN
        [pc |-> "mark_used", rec |-> [rec EXCEPT !.is_used = TRUE],
         ret |-> Returned(TRUE, "", 0)]
    ELSE IF RemainingAttempts(rec) > 0 THEN
        [pc |-> "done", rec |-> rec,
         ret |-> Returned(FALSE, MsgInvalidRemaining, RemainingAttempts(rec))]
    ELSE
        [pc |-> "mark_used", rec |-> [rec EXCEPT !.is_used = TRUE],
         ret |-> Returned(FALSE, MsgInvalidMaxed, 0)]

\* verify_otp: otp_record.attempts += 1, commit, then _verify_otp_hash.
VerifyOtp_Increment(p) ==
    /\ pc[p] = "increment"
    /\ IF RowExists(otp_codes, otp_record[p].id)
       THEN LET d == CompareDecision(otp_record[p], plain_otp[p]) IN
            /\ otp_codes' = SetAttempts(otp_codes, otp_record[p].id,
                                        otp_record[p].attempts)
            /\ pc' = [pc EXCEPT ![p] = d.pc]
            /\ otp_record' = [otp_record EXCEPT ![p] = d.rec]
            /\ ret' = [ret EXCEPT ![p] = d.ret]
       ELSE /\ otp_codes' = otp_codes
            /\ otp_record' = otp_record
            /\ Finish(p, Raised("StaleDataError"))
    /\ UNCHANGED <<now, next_id, identities, serial, op, email, plain_otp, otp_records,
                   users, token_response,
                   user_details, current_user, bypass_otp_validation, chat_vars>>

\* verify_otp: otp_record.is_used = True, commit, return.
VerifyOtp_MarkUsed(p) ==
    /\ pc[p] = "mark_used"
    /\ IF RowExists(otp_codes, otp_record[p].id)
       THEN /\ otp_codes' = SetUsed(otp_codes, {otp_record[p].id})
            /\ Finish(p, ret[p])
       ELSE /\ otp_codes' = otp_codes
            /\ Finish(p, Raised("StaleDataError"))
    /\ UNCHANGED <<now, next_id, identities, serial, op, email, plain_otp, otp_record,
                   otp_records, users, token_response,
                   user_details, current_user, bypass_otp_validation, chat_vars>>

(* ------------------- OTPService.cleanup_expired_otps ------------------- *)
\* cleanup_expired_otps: await db.execute(stmt), count = len(expired_otps)
Cleanup_Select(p) ==
    /\ MayStart(p)
    /\ Begin(p, "cleanup_expired_otps", "", 0)
    /\ otp_records' = [otp_records EXCEPT ![p] = Ids(ExpiredOtps(otp_codes, now))]
    /\ otp_record' = [otp_record EXCEPT ![p] = NoRecord]
    /\ ret' = [ret EXCEPT ![p] = NoRet]
    /\ pc' = [pc EXCEPT ![p] = "delete"]
    /\ UNCHANGED <<otp_codes, now, next_id, identities, serial, users,
                   user_details, current_user, bypass_otp_validation, chat_vars>>

\* cleanup_expired_otps: db.delete of each selected row, commit, return count.
Cleanup_Delete(p) ==
    /\ pc[p] = "delete"
    /\ otp_codes' = {r \in otp_codes : r.id \notin otp_records[p]}
    /\ Finish(p, Returned(TRUE, "", Cardinality(otp_records[p])))
    /\ UNCHANGED <<now, next_id, identities, serial, op, email, plain_otp, otp_record,
                   otp_records, users, token_response,
                   user_details, current_user, bypass_otp_validation, chat_vars>>

(* --------------- AuthService.verify_otp_and_authenticate --------------- *)
\* WHERE users.email = :email
UserByEmail(table, e) == {u \in table : u.email = e}

\* User(email=email, is_email_verified=False)
NewUser(e) == [email |-> e, is_email_verified |-> FALSE]

\* UPDATE users SET is_email_verified = true WHERE id = :id
SetVerified(table, e) ==
    {IF u.email = e THEN [u EXCEPT !.is_email_verified = TRUE] ELSE u : u \in table}

\* Variant of the failure return that replaces the reason by a fixed one.
AuthenticateFailureGeneric(r) == Returned(FALSE, "Invalid OTP", 0)

\* return False, error_message, None
AuthenticateFailure(r) == Returned(FALSE, r.msg, r.n)

\* Variant of the verified check that never asks for verification.
NeedsVerificationNever(u) == FALSE

\* if not user.is_email_verified
NeedsVerification(u) == ~u.is_email_verified

\* create_access_token(identity): a signed token that names the identity and
\* expires jwt_access_token_expire_minutes from now.
CreateAccessToken(identity, t) ==
    [sub |-> identity, exp |-> t + jwt_access_token_expire_minutes, signed |-> TRUE]

\* The fields the TokenResponse schema declares.
TokenResponseFields == {"access_token", "token_type", "expires_in", "user"}

\* TokenResponse(**kwargs): a pydantic model keeps the keyword arguments that
\* are declared fields and ignores the others.
TokenResponse(kwargs) ==
    [f \in (DOMAIN kwargs) \cap TokenResponseFields |-> kwargs[f]]

\* WHERE user_details.user_id = :user_id
HasProfile(table, user_id) == user_id \in table

\* The TokenResponse verify_otp_and_authenticate builds for the user at time
\* t: the users row is identified by its unique email.
TokenFor(e, t, has_profile) ==
    TokenResponse([access_token |-> CreateAccessToken(e, t),
                   token_type |-> "bearer",
                   expires_in |-> jwt_access_token_expire_minutes * 60,
                   user |-> e,
                   has_profile |-> has_profile])

Authenticate_GetUserUnchecked(p) ==
    /\ pc[p] = "done"
    /\ op[p] = "verify_otp"
    /\ op' = [op EXCEPT ![p] = "verify_otp_and_authenticate"]
    /\ IF ret[p].raised THEN
           /\ pc' = pc
           /\ ret' = ret
       ELSE LET found == UserByEmail(users, email[p]) IN
           /\ ret' = [ret EXCEPT ![p] = NoRet]
           /\ pc' = [pc EXCEPT ![p] =
                       IF found = {} THEN "create_user"
                       ELSE IF \E u \in found : NeedsVerification(u)
                            THEN "verify_user_email"
                            ELSE "get_user_details"]
    /\ UNCHANGED <<otp_codes, now, next_id, identities, serial, email, plain_otp,
                   otp_record, otp_records, users, token_response,
                   user_details, current_user, bypass_otp_validation, chat_vars>>

\* verify_otp_and_authenticate resumes when its verify_otp call is over.  An
\* exception passes through (there is no try block), a failure is returned
\* with verify_otp's message, a success goes on to get_user_by_email:
\* await db.execute(stmt), scalar_one_or_none.
Authenticate_GetUser(p) ==
    /\ pc[p] = "done"
    /\ op[p] = "verify_otp"
    /\ op' = [op EXCEPT ![p] = "verify_otp_and_authenticate"]
    /\ IF ret[p].raised THEN
           /\ pc' = pc
           /\ ret' = ret
       ELSE IF ~ret[p].ok THEN
           /\ pc' = pc
           /\ ret' = [ret EXCEPT ![p] = AuthenticateFailure(ret[p])]
       ELSE LET found == UserByEmail(users, email[p]) IN
           /\ ret' = [ret EXCEPT ![p] = NoRet]
           /\ pc' = [pc EXCEPT ![p] =
                       IF found = {} THEN "create_user"
                       ELSE IF \E u \in found : NeedsVerification(u)
                            THEN "verify_user_email"
                            ELSE "get_user_details"]
    /\ UNCHANGED <<otp_codes, now, next_id, identities, serial, email, plain_otp,
                   otp_record, otp_records, users, token_response,
                   user_details, current_user, bypass_otp_validation, chat_vars>>

\* create_user: db.add(user), commit, refresh.  users.email is unique: the
\* INSERT of an email that is already there raises IntegrityError.
Authenticate_CreateUser(p) ==
    /\ pc[p] = "create_user"
    /\ IF UserByEmail(users, email[p]) = {}
       THEN /\ users' = users \cup {NewUser(email[p])}
            /\ pc' = [pc EXCEPT ![p] =
                        IF NeedsVerification(NewUser(email[p]))
                        THEN "verify_user_email" ELSE "get_user_details"]
            /\ ret' = ret
       ELSE /\ users' = users
            /\ Finish(p, Raised("IntegrityError"))
    /\ UNCHANGED <<otp_codes, now, next_id, identities, serial, op, email, plain_otp,
                   otp_record, otp_records, token_response,
                   user_details, current_user, bypass_otp_validation, chat_vars>>

\* verify_user_email: user.is_email_verified = True, commit, refresh.
Authenticate_VerifyUserEmail(p) ==
    /\ pc[p] = "verify_user_email"
    /\ users' = SetVerified(users, email[p])
    /\ pc' = [pc EXCEPT ![p] = "get_user_details"]
    /\ UNCHANGED <<otp_codes, now, next_id, identities, serial, op, email, plain_otp,
                   otp_record, otp_records, ret, token_response,
                   user_details, current_user, bypass_otp_validation, chat_vars>>

\* get_user_details, create_access_token, TokenResponse, return True.
Authenticate_Token(p) ==
    /\ pc[p] = "get_user_details"
    /\ token_response' = [token_response EXCEPT ![p] =
            TokenFor(email[p], now, HasProfile(user_details, email[p]))]
    /\ Finish(p, Returned(TRUE, "", 0))
    /\ UNCHANGED <<otp_codes, now, next_id, identities, serial, op, email, plain_otp,
                   otp_record, otp_records, users,
                   user_details, current_user, bypass_otp_validation, chat_vars>>

(* ------------------------- register_user_details ---------------------- *)
\* POST /register-details for the signed-in user e: get_user_details, 400 when
\* a row exists, else create_user_details.
RegisterUserDetails(e) ==
    /\ serial => \A p \in Procs : Idle(p)
    /\ UserByEmail(users, e) # {}
    /\ ~HasProfile(user_details, e)
    /\ user_details' = user_details \cup {e}
    /\ UNCHANGED <<otp_codes, now, next_id, identities, serial, pc, op, email,
                   plain_otp, otp_record, otp_records, ret, users, token_response,
                   current_user, bypass_otp_validation, chat_vars>>

(* --------------------------- get_current_user -------------------------- *)
MsgTokenExpired == "Token has expired"
MsgTokenInvalid == "Invalid authentication credentials"
MsgUserNotFound == "User not found"

\* decode_token(token): the signature is checked first, then the expiry.
DecodeToken(tok, t) ==
    IF ~tok.signed THEN "InvalidTokenError"
    ELSE IF t >= tok.exp THEN "ExpiredSignatureError"
    ELSE "ok"

\* Variant of get_current_user that trusts the token without the user lookup.
CurrentUserUnchecked(tok, t, table) ==
    LET decoded == DecodeToken(tok, t) IN
    IF decoded = "ExpiredSignatureError"
    THEN [ok |-> FALSE, detail |-> MsgTokenExpired, user |-> ""]
    ELSE IF decoded = "InvalidTokenError" \/ tok.sub = ""
    THEN [ok |-> FALSE, detail |-> MsgTokenInvalid, user |-> ""]
    ELSE [ok |-> TRUE, detail |-> "", user |-> tok.sub]

\* get_current_user: decode_token, payload.get("sub"), get_user_by_id; every
\* failure is an HTTPException with status 401 and the detail given here.
CurrentUser(tok, t, table) ==
    LET decoded == DecodeToken(tok, t) IN
    IF decoded = "ExpiredSignatureError"
    THEN [ok |-> FALSE, detail |-> MsgTokenExpired, user |-> ""]
    ELSE IF decoded = "InvalidTokenError" \/ tok.sub = ""
    THEN [ok |-> FALSE, detail |-> MsgTokenInvalid, user |-> ""]
    ELSE IF UserByEmail(table, tok.sub) = {}
    THEN [ok |-> FALSE, detail |-> MsgUserNotFound, user |-> ""]
    ELSE [ok |-> TRUE, detail |-> "", user |-> tok.sub]

\* The bearer tokens a client may present: the ones the sign-in calls returned,
\* forgeries of them that lack the server's signature, a token without a
\* subject, and a signed token that names a user this database does not hold.
PresentedTokens ==
    LET issued == {token_response[p].access_token : p \in Procs} IN
    issued \cup {[tok EXCEPT !.signed = FALSE] : tok \in issued}
           \cup {[sub |-> e, exp |-> MaxTokenTime + 1, signed |-> TRUE] :
                    e \in (Emails \ identities) \cup {""}}

\* GET /me and every other route behind Depends(get_current_user).
GetCurrentUser(tok) ==
    /\ serial => \A p \in Procs : Idle(p)
    /\ current_user' = CurrentUser(tok, now, users)
    /\ UNCHANGED <<otp_codes, now, next_id, identities, serial, pc, op, email,
                   plain_otp, otp_record, otp_records, ret, users, token_response,
                   user_details, bypass_otp_validation, chat_vars>>

\* The lifetime of a token passes.
TickToken ==
    /\ now + jwt_access_token_expire_minutes <= MaxTokenTime
    /\ now' = now + jwt_access_token_expire_minutes
    /\ UNCHANGED <<otp_codes, next_id, identities, serial, pc, op, email, plain_otp,
                   otp_record, otp_records, ret, users, token_response,
                   user_details, current_user, bypass_otp_validation, chat_vars>>

(* ----------------------------- cancellation ---------------------------- *)
\* The caller of verify_otp goes away while the call waits for a commit: the
\* await raises CancelledError.  The statement the call had sent may or may
\* not have reached the database before that; nothing is rolled back that an
\* earlier commit of the call wrote.
VerifyOtp_Cancel(p) ==
    /\ op[p] = "verify_otp"
    /\ pc[p] \in {"increment", "mark_used"}
    /\ \E applied \in BOOLEAN :
         otp_codes' =
            IF ~applied THEN otp_codes
            ELSE IF pc[p] = "increment"
                 THEN SetAttempts(otp_codes, otp_record[p].id, otp_record[p].attempts)
                 ELSE SetUsed(otp_codes, {otp_record[p].id})
    /\ Finish(p, Raised("CancelledError"))
    /\ UNCHANGED <<now, next_id, identities, serial, op, email, plain_otp, otp_record,
                   otp_records, users, token_response,
                   user_details, current_user, bypass_otp_validation, chat_vars>>

(* ------------------------------- clock --------------------------------- *)
Tick ==
    /\ now + ClockStep <= MaxTime
    /\ now' = now + ClockStep
    /\ UNCHANGED <<otp_codes, next_id, identities, serial, pc, op, email, plain_otp,
                   otp_record, otp_records, ret, users, token_response,
                   user_details, current_user, bypass_otp_validation, chat_vars>>

(* ------------------------------ Init ----------------------------------- *)
InitCommon == /\ now = 0
              /\ pc = [p \in Procs |-> "idle"]
              /\ op = [p \in Procs |-> "none"]
              /\ email = [p \in Procs |-> ""]
              /\ plain_otp = [p \in Procs |-> 0]
              /\ otp_record = [p \in Procs |-> NoRecord]
              /\ otp_records = [p \in Procs |-> {}]
              /\ ret = [p \in Procs |-> NoRet]
              /\ token_response = [p \in Procs |-> NoToken]
              /\ user_details = {}
              /\ current_user = NoCurrentUser
              /\ chat_sessions = {}
              /\ chat_messages = {}
              /\ chat_result = NoChatResult
              /\ chat_next_id = [session |-> 1, message |-> 1]

\* The single client starts on an empty database and signs in as one identity.
Init == /\ InitCommon
        /\ identities = {"a@x.com"}
        /\ otp_codes = {}
        /\ next_id = 1
        /\ serial = TRUE
        /\ users = {}
        /\ bypass_otp_validation = FALSE

\* The same client against a server started with BYPASS_OTP_VALIDATION=true.
InitBypass == /\ InitCommon
              /\ identities = {"a@x.com"}
              /\ otp_codes = {}
              /\ next_id = 1
              /\ serial = TRUE
              /\ users = {}
              /\ bypass_otp_validation = TRUE

\* The racing calls start on a database earlier serial calls left behind:
\* empty, or holding one code that was requested at time 0 and has since
\* been tried k < otp_max_attempts times with a wrong code.
RaceTables(es) ==
    {{}} \cup {SetAttempts({NewOtpRecord(1, e, c, 0)}, 1, k) :
                 e \in es, c \in Codes, k \in 0..(otp_max_attempts - 1)}

InitRace == /\ InitCommon
            /\ identities = {"a@x.com"}
            /\ otp_codes \in RaceTables(identities)
            /\ next_id = Cardinality(otp_codes) + 1
            /\ serial = FALSE
            /\ users = {}
            /\ bypass_otp_validation = FALSE

\* The tables two overlapping create_otp calls for one email leave behind
\* on an empty database: each call's SELECT ran before the other's INSERT,
\* so both rows are unused.
RacedTables(es) ==
    {{NewOtpRecord(1, e, c1, 0), NewOtpRecord(2, e, c2, 0)} :
       e \in es, c1 \in Codes, c2 \in Codes}

\* One client whose calls follow one another, on a database that is empty
\* or is what two overlapping create_otp calls left behind.
InitAfterRace == /\ InitCommon
                 /\ identities = {"a@x.com"}
                 /\ otp_codes \in {{}} \cup RacedTables(identities)
                 /\ next_id = Cardinality(otp_codes) + 1
                 /\ serial = TRUE
                 /\ users = {}
                 /\ bypass_otp_validation = FALSE

\* What the earlier calls of another client, e, left behind: the code it
\* requested and has not used yet, or the code it signed in with and its
\* users row.
OtherClientTables(e) ==
    {[otp_codes |-> {NewOtpRecord(1, e, c, 0)}, users |-> {}] : c \in Codes}
    \cup
    {[otp_codes |-> SetUsed(SetAttempts({NewOtpRecord(1, e, c, 0)}, 1, 1), {1}),
      users |-> SetVerified({NewUser(e)}, e)] : c \in Codes}

\* One client whose calls follow one another, on a database that holds the
\* rows of another client.
InitOtherClient ==
    /\ InitCommon
    /\ identities = {"a@x.com"}
    /\ \E t \in OtherClientTables("b@x.com") :
          otp_codes = t.otp_codes /\ users = t.users
    /\ next_id = 2
    /\ serial = TRUE
    /\ bypass_otp_validation = FALSE

(* ---------------------------- specification ---------------------------- *)
Next ==
    \/ \E p \in Procs, e \in identities : SendOtp_Select(p, e)
    \/ \E p \in Procs : SendOtp_Invalidate(p)
    \/ \E p \in Procs : SendOtp_Insert(p)
    \/ \E p \in Procs : SendOtp_Deliver(p)
    \/ \E p \in Procs, e \in identities, c \in Codes : VerifyOtp_Select(p, e, c)
    \/ \E p \in Procs : VerifyOtp_Increment(p)
    \/ \E p \in Procs : VerifyOtp_MarkUsed(p)
    \/ \E p \in Procs : Cleanup_Select(p)
    \/ \E p \in Procs : Cleanup_Delete(p)
    \/ Tick

\* One client: every call completes before the next one starts.
Spec == Init /\ [][Next]_vars

\* One client, after two create_otp calls have overlapped.
SpecAfterRace == InitAfterRace /\ [][Next]_vars

\* Concurrent requests: one call per slot, interleaved at every await.
SpecRace == InitRace /\ [][Next]_vars

\* One client, bypass_otp_validation set.
SpecBypass == InitBypass /\ [][Next]_vars

\* The OTPService calls of one client who may abandon a verify_otp call while
\* it waits for a commit.
NextCancel ==
    \/ Next
    \/ \E p \in Procs : VerifyOtp_Cancel(p)

SpecCancel == Init /\ [][NextCancel]_vars

\* The same calls with the sign-in that follows a verify_otp: every verify_otp
\* may be the one verify_otp_and_authenticate makes.
NextAuth ==
    \/ Next
    \/ \E p \in Procs : Authenticate_GetUser(p)
    \/ \E p \in Procs : Authenticate_CreateUser(p)
    \/ \E p \in Procs : Authenticate_VerifyUserEmail(p)
    \/ \E p \in Procs : Authenticate_Token(p)

\* One client signing in, calls one after another.
SpecAuth == Init /\ [][NextAuth]_vars

\* Concurrent sign-in requests.
SpecRaceAuth == InitRace /\ [][NextAuth]_vars

\* One client signing in beside the rows of another client.
SpecOtherClient == InitOtherClient /\ [][NextAuth]_vars

\* One client who signs in and registers profile details.
NextProfile ==
    \/ NextAuth
    \/ \E e \in identities : RegisterUserDetails(e)

SpecProfile == Init /\ [][NextProfile]_vars

\* One client who requests codes, signs in with the code received and then
\* presents bearer tokens, over the lifetime of a token.
NextToken ==
    \/ \E p \in Procs, e \in identities : SendOtp_Select(p, e)
    \/ \E p \in Procs : SendOtp_Invalidate(p)
    \/ \E p \in Procs : SendOtp_Insert(p)
    \/ \E p \in Procs : SendOtp_Deliver(p)
    \/ \E p \in Procs :
          /\ pc[p] = "done" /\ op[p] = "send_otp"
          /\ VerifyOtp_Select(p, email[p], plain_otp[p])
    \/ \E p \in Procs : VerifyOtp_Increment(p)
    \/ \E p \in Procs : VerifyOtp_MarkUsed(p)
    \/ \E p \in Procs : Authenticate_GetUser(p)
    \/ \E p \in Procs : Authenticate_CreateUser(p)
    \/ \E p \in Procs : Authenticate_VerifyUserEmail(p)
    \/ \E p \in Procs : Authenticate_Token(p)
    \/ \E tok \in PresentedTokens : GetCurrentUser(tok)
    \/ Tick
    \/ TickToken

SpecToken == Init /\ [][NextToken]_vars


(* ======================= properties of single calls ==================== *)
Done(p, o) == pc[p] = "done" /\ op[p] = o /\ ~ret[p].raised

\* The row of the table with primary key id.
Row(table, id) == CHOOSE r \in table : r.id = id

\* Slot p's session holds a row of the table.
HoldsRow(p) == otp_record[p] # NoRecord /\ RowExists(otp_codes, otp_record[p].id)

\* The candidate of slot p's verify_otp call is the code of the row it selected.
Matches(p) == HashOtp(plain_otp[p]) = otp_record[p].otp

\* An earlier row of the same email that a later create_otp superseded
\* before any verify_otp touched it.
Superseded(old, rec) ==
    /\ old.email = rec.email
    /\ old.id < rec.id
    /\ old.is_used
    /\ old.attempts = 0

(* ----------------------------------------------------------------------- *)
\* C1 - Uniqueness of the active code: when a send_otp (create_otp) call has
\* completed in a serial run, exactly one row of its email is unused, and it
\* is the row the call created; every earlier row of the email is used.
C1_UniqueActiveCode ==
    \A p \in Procs :
        (Done(p, "send_otp") /\ otp_record[p] # NoRecord) =>
            /\ UnusedOtps(otp_codes, email[p]) = {otp_record[p]}
            /\ \A r \in otp_codes :
                 (r.email = email[p] /\ r.id # otp_record[p].id) => r.is_used

\* A second send_otp for an email has completed and superseded the first code.
C1_Witness ==
    \E p \in Procs :
        /\ Done(p, "send_otp")
        /\ otp_record[p] # NoRecord
        /\ \E old \in otp_codes : Superseded(old, otp_record[p])

(* ----------------------------------------------------------------------- *)
\* C2 - No replay: (first) a verify_otp call with the code of a row that is
\* within its TTL and had no attempts succeeds; (consumed) a successful call
\* leaves its row used and no unused row of the email; (inert) while no
\* create_otp inserts a row, an email without unused rows stays without;
\* (replay) every verify_otp call for an email without unused rows, the
\* successful code included, fails with "No valid OTP found".
C2_First(p) ==
    (Done(p, "verify_otp") /\ otp_record[p] # NoRecord /\ Matches(p)
        /\ otp_record[p].attempts <= 1 /\ now <= otp_record[p].expires_at)
    => ret[p] = Returned(TRUE, "", 0)

C2_Consumed(p) ==
    (Done(p, "verify_otp") /\ ret[p].ok) =>
        /\ HoldsRow(p)
        /\ Row(otp_codes, otp_record[p].id).is_used
        /\ UnusedOtps(otp_codes, email[p]) = {}

C2_Inert(e) ==
    (UnusedOtps(otp_codes, e) = {} /\ next_id' = next_id)
        => UnusedOtps(otp_codes', e) = {}

C2_Replay(p, e, c) ==
    (VerifyOtp_Select(p, e, c) /\ UnusedOtps(otp_codes, e) = {})
        => (pc'[p] = "done" /\ ret'[p] = Returned(FALSE, MsgNotFound, 0))

C2_NoReplay ==
    [][/\ \A p \in Procs : C2_First(p)' /\ C2_Consumed(p)'
       /\ \A e \in Emails : C2_Inert(e)
       /\ \A p \in Procs, e \in Emails, c \in Codes : C2_Replay(p, e, c)]_vars

\* The code that has just succeeded is presented again and is refused.
C2_Witness ==
    \E p \in Procs :
        /\ Done(p, "verify_otp")
        /\ ret[p] = Returned(FALSE, MsgNotFound, 0)
        /\ \E r \in otp_codes :
             /\ r.email = email[p]
             /\ r.otp = HashOtp(plain_otp[p])
             /\ r.is_used /\ r.attempts = 1 /\ now <= r.expires_at
             /\ \A x \in otp_codes : x.email = r.email => x.id <= r.id

(* ----------------------------------------------------------------------- *)
\* C3 - Attempt exhaustion: a verify_otp call with a wrong code never succeeds;
\* the wrong call that brings attempts to otp_max_attempts fails and leaves the
\* row used; between calls every row with otp_max_attempts attempts is used;
\* and the call after that, even with the right code, fails.
C3_WrongFails(p) ==
    (Done(p, "verify_otp") /\ otp_record[p] # NoRecord /\ ~Matches(p)) =>
        /\ ~ret[p].ok
        /\ otp_record[p].attempts = otp_max_attempts =>
             /\ ret[p] = Returned(FALSE, MsgInvalidMaxed, 0)
             /\ Row(otp_codes, otp_record[p].id).is_used

C3_ExhaustedIsUsed ==
    (\A p \in Procs : Idle(p)) =>
        \A r \in otp_codes : r.attempts >= otp_max_attempts => r.is_used

C3_NextFails(p, e, c) ==
    (/\ VerifyOtp_Select(p, e, c)
     /\ \E r \in otp_codes :
          /\ r.email = e /\ r.attempts = otp_max_attempts
          /\ \A x \in otp_codes : x.email = e => x.id <= r.id)
    => (pc'[p] = "done" /\ ~ret'[p].ok)

C3_AttemptExhaustion ==
    [][/\ \A p \in Procs : C3_WrongFails(p)'
       /\ C3_ExhaustedIsUsed'
       /\ \A p \in Procs, e \in Emails, c \in Codes : C3_NextFails(p, e, c)]_vars

\* otp_max_attempts wrong codes were tried, then the right code: refused.
C3_Witness ==
    \E p \in Procs :
        /\ Done(p, "verify_otp")
        /\ ~ret[p].ok
        /\ \E r \in otp_codes :
             /\ r.email = email[p]
             /\ r.otp = HashOtp(plain_otp[p])
             /\ r.attempts = otp_max_attempts /\ r.is_used
             /\ now <= r.expires_at

C5_Select(p, e, c) ==
    (VerifyOtp_Select(p, e, c)
        /\ \E r \in UnusedOtps(otp_codes, e) : r.expires_at < now)
    => (pc'[p] = "mark_used" /\ ret'[p] = Returned(FALSE, MsgExpired, 0))

C5_Return(p) ==
    (VerifyOtp_MarkUsed(p) /\ ret[p].msg = MsgExpired)
    => /\ pc'[p] = "done"
       /\ ret'[p] = Returned(FALSE, MsgExpired, 0)
       /\ Row(otp_codes', otp_record[p].id).is_used
       /\ UnusedOtps(otp_codes', email[p]) = {}

C5_Expiry ==
    [][/\ \A p \in Procs, e \in Emails, c \in Codes : C5_Select(p, e, c)
       /\ \A p \in Procs : C5_Return(p)]_vars

\* The right code was presented after the TTL and refused as expired.
C5_Witness ==
    \E p \in Procs :
        /\ Done(p, "verify_otp")
        /\ ret[p] = Returned(FALSE, MsgExpired, 0)
        /\ Matches(p)
        /\ HoldsRow(p)
        /\ Row(otp_codes, otp_record[p].id).is_used

(* ===================== properties of overlapping calls ================= *)
\* Slot p's verify_otp call has committed its attempts increment and compared
\* the digests.
Compared(p) ==
    /\ op[p] = "verify_otp"
    /\ pc[p] \in {"mark_used", "done"}
    /\ ~ret[p].raised
    /\ ret[p].ok \/ ret[p].msg \in {MsgInvalidRemaining, MsgInvalidMaxed}

(* ----------------------------------------------------------------------- *)
\* C6 - Two overlapping verify_otp calls with the right code never both
\* succeed against the same row.
C6_NoDoubleRedeem ==
    \A p, q \in Procs :
        (/\ p # q
         /\ Done(p, "verify_otp") /\ Done(q, "verify_otp")
         /\ otp_record[p].id = otp_record[q].id)
        => ~(ret[p].ok /\ ret[q].ok)

(* ----------------------------------------------------------------------- *)
\* C7 - No lost attempt increments: two verify_otp calls that both compared
\* against the same row each raised its attempts counter by one, so they
\* hold different counts.
C7_NoLostIncrement ==
    \A p, q \in Procs :
        (/\ p # q
         /\ Compared(p) /\ Compared(q)
         /\ otp_record[p].id = otp_record[q].id)
        => otp_record[p].attempts # otp_record[q].attempts

(* ----------------------------------------------------------------------- *)
\* C8 - Once all the racing calls have completed, at most one row of an
\* email is unused.
C8_RaceLeavesOneUnused ==
    (\A p \in Procs : Idle(p)) =>
        \A e \in Emails : Cardinality(UnusedOtps(otp_codes, e)) <= 1

(* ----------------------------------------------------------------------- *)
\* C9 (as amended) - Boundary at otp_max_attempts = 5: with attempts = 4 and
\* the row unused and within its TTL, the fifth verify_otp call is not turned
\* away by the attempt limit; it succeeds with the right code and fails with
\* "Invalid OTP. Maximum attempts exceeded" with a wrong one, and either way
\* the row ends with attempts = 5 and used.
C9_Fifth(p, e, c) ==
    (/\ VerifyOtp_Select(p, e, c)
     /\ \E r \in UnusedOtps(otp_codes, e) :
          r.attempts = otp_max_attempts - 1 /\ now <= r.expires_at)
    => (pc'[p] = "increment" /\ otp_record'[p].attempts = otp_max_attempts)

C9_Result(p) ==
    (/\ Done(p, "verify_otp")
     /\ otp_record[p].attempts = otp_max_attempts
     /\ ret[p].msg \notin {MsgExpired, MsgExceeded})
    => /\ Matches(p) => ret[p] = Returned(TRUE, "", 0)
       /\ ~Matches(p) => ret[p] = Returned(FALSE, MsgInvalidMaxed, 0)
       /\ HoldsRow(p)
       /\ Row(otp_codes, otp_record[p].id).is_used
       /\ Row(otp_codes, otp_record[p].id).attempts = otp_max_attempts

C9_Boundary ==
    [][/\ \A p \in Procs, e \in Emails, c \in Codes : C9_Fifth(p, e, c)
       /\ \A p \in Procs : C9_Result(p)']_vars

\* The fifth call carried the right code and succeeded.
C9_Witness ==
    \E p \in Procs :
        /\ Done(p, "verify_otp")
        /\ ret[p].ok
        /\ otp_record[p].attempts = otp_max_attempts

\* C9 as stated: the fifth call fails for exceeded attempts whatever its code,
\* and the row becomes used.
C9_Original ==
    \A p \in Procs :
        (/\ Done(p, "verify_otp")
         /\ otp_record[p] # NoRecord
         /\ otp_record[p].attempts = otp_max_attempts)
        => /\ ~ret[p].ok
           /\ ret[p].msg \in {MsgExceeded, MsgInvalidMaxed}
           /\ Row(otp_codes, otp_record[p].id).is_used

(* ----------------------------------------------------------------------- *)
\* C10 - verify_otp succeeds only by a digest match: the row a call goes on
\* to compare against was unused, unexpired and below otp_max_attempts when
\* selected; success is decided only by the comparison step; and a call that
\* succeeds holds a row whose digest is the digest of its candidate.
C10_Selected(p, e, c) ==
    (VerifyOtp_Select(p, e, c) /\ pc'[p] = "increment") =>
        \E r \in otp_codes :
            /\ r.id = otp_record'[p].id /\ r.otp = otp_record'[p].otp
            /\ r.email = e /\ ~r.is_used
            /\ ~(now > r.expires_at)
            /\ r.attempts < otp_max_attempts

C10_Decided(p) ==
    (op'[p] = "verify_otp" /\ ret'[p].ok /\ ~(op[p] = "verify_otp" /\ ret[p].ok))
        => pc[p] = "increment"

C10_Match(p) ==
    (op[p] = "verify_otp" /\ ret[p].ok) =>
        /\ otp_record[p] # NoRecord
        /\ HashOtp(plain_otp[p]) = otp_record[p].otp

C10_SuccessOnlyByMatch ==
    [][/\ \A p \in Procs, e \in Emails, c \in Codes : C10_Selected(p, e, c)
       /\ \A p \in Procs : C10_Decided(p) /\ C10_Match(p)']_vars

\* A candidate that does not match was compared against an active row and
\* refused.
C10_Witness ==
    \E p \in Procs :
        /\ Done(p, "verify_otp")
        /\ otp_record[p] # NoRecord
        /\ ~Matches(p)
        /\ ret[p].msg = MsgInvalidRemaining
        /\ ~ret[p].ok

(* ------------------------------- C11 ----------------------------------- *)
\* A step keeps every used row used for as long as the row is stored.
C11_NoUnuse ==
    \A r \in otp_codes : \A r2 \in otp_codes' :
        (r.is_used /\ r2.id = r.id) => r2.is_used

\* The row a verify_otp call takes up is stored with is_used = false, and a
\* call that finds only used rows of the email fails with the not-found reason.
C11_Selected(p, e, c) ==
    VerifyOtp_Select(p, e, c) =>
        /\ otp_record'[p] # NoRecord =>
              /\ RowExists(otp_codes, otp_record'[p].id)
              /\ ~Row(otp_codes, otp_record'[p].id).is_used
        /\ (\A r \in otp_codes : r.email = e => r.is_used) =>
              /\ pc'[p] = "done"
              /\ ret'[p] = Returned(FALSE, MsgNotFound, 0)

\* The comparison that decides a success runs against a row that is stored
\* with is_used = false.
C11_Succeeds(p) ==
    (VerifyOtp_Increment(p) /\ ret'[p].ok) =>
        /\ RowExists(otp_codes, otp_record[p].id)
        /\ ~Row(otp_codes, otp_record[p].id).is_used

C12_NoDecrease ==
    \A r \in otp_codes : \A r2 \in otp_codes' :
        r2.id = r.id => r2.attempts >= r.attempts

\* No row is ever past the limit, and when no call is in progress every row
\* that has reached the limit is used.
C12_Limit ==
    /\ \A r \in otp_codes : r.attempts <= otp_max_attempts
    /\ (\A p \in Procs : Idle(p)) =>
          \A r \in otp_codes : r.attempts >= otp_max_attempts => r.is_used

C13_IncrementStored(p) ==
    /\ op[p] = "verify_otp"
    /\ pc[p] = "mark_used"
    /\ ret[p] \in {Returned(TRUE, "", 0), Returned(FALSE, MsgInvalidMaxed, 0)}
    /\ HoldsRow(p)
    /\ Row(otp_codes, otp_record[p].id).attempts = otp_record[p].attempts

\* C13: single logical update per verify_otp call.  No stored state shows the
\* attempts increment of a matching or limit-reaching attempt without
\* is_used = true on the same row.
C13_AtomicUpdate ==
    \A p \in Procs :
        C13_IncrementStored(p) => Row(otp_codes, otp_record[p].id).is_used

(* ------------------------------- C14 ----------------------------------- *)
\* A step, a cancellation included, leaves the attempts of a stored row as it
\* was or one higher, and never past otp_max_attempts.
C14_Stands ==
    \A r \in otp_codes : \A r2 \in otp_codes' :
        r2.id = r.id =>
            /\ r2.attempts \in {r.attempts, r.attempts + 1}
            /\ r2.attempts <= otp_max_attempts

\* A cancelled call leaves in storage the increment it had committed.
C14_Cancelled(p) ==
    (pc[p] = "mark_used" /\ HoldsRow(p) /\ VerifyOtp_Cancel(p)) =>
        /\ RowExists(otp_codes', otp_record[p].id)
        /\ Row(otp_codes', otp_record[p].id).attempts
              = Row(otp_codes, otp_record[p].id).attempts

\* Once the stored increments of a record add up to otp_max_attempts, the
\* next call is refused before any comparison, whatever code it presents.
C14_Exhausted(p, e, c) ==
    (/\ VerifyOtp_Select(p, e, c)
     /\ \E r \in otp_codes :
           /\ UnusedOtps(otp_codes, e) = {r}
           /\ r.attempts >= otp_max_attempts
           /\ now <= r.expires_at) =>
        /\ pc'[p] = "mark_used"
        /\ ret'[p] = Returned(FALSE, MsgExceeded, 0)

\* C14: cancellation does not refund an attempt.  When a verify_otp call is
\* cancelled after its attempts increment was committed, the incremented value
\* stays in storage, and a record whose stored attempts reached
\* otp_max_attempts through such calls refuses every further call.
C14_NoRefund ==
    [][/\ C14_Stands
       /\ \A p \in Procs : C14_Cancelled(p)
       /\ \A p \in Procs, e \in identities, c \in Codes : C14_Exhausted(p, e, c)]_vars

\* The correct code is refused with "Maximum verification attempts exceeded":
\* a cancelled call had brought the record to the limit without using it.
C14_Witness ==
    \E p \in Procs :
        /\ Done(p, "verify_otp")
        /\ ret[p] = Returned(FALSE, MsgExceeded, 0)
        /\ Matches(p)
        /\ HoldsRow(p)
        /\ Row(otp_codes, otp_record[p].id).attempts = otp_max_attempts
        /\ now <= otp_record[p].expires_at

(* ------------------------------- C15 ----------------------------------- *)
\* send_otp in slot p has returned because send_otp_email returned False.
C15_DeliveryFailed(p) ==
    Done(p, "send_otp") /\ ret[p].msg = MsgSendFailed

\* The failure carries no TTL, and the record the call created is stored as
\* the only unused record of the email, untried, with the full lifetime.
C15_Result(p) ==
    C15_DeliveryFailed(p) =>
        /\ ret[p] = Returned(FALSE, MsgSendFailed, 0)
        /\ UnusedOtps(otp_codes, email[p]) = {otp_record[p]}
        /\ otp_record[p].attempts = 0
        /\ otp_record[p].expires_at = otp_record[p].created_at + otp_expire_minutes
        /\ VerifyOtpHash(plain_otp[p], otp_record[p].otp)

\* A verify_otp with the plaintext of that record, made before the record
\* expires, takes the record up and goes on to the comparison.
C15_TakenUp(p) ==
    (/\ C15_DeliveryFailed(p)
     /\ now <= otp_record[p].expires_at
     /\ VerifyOtp_Select(p, email[p], plain_otp[p])) =>
        /\ pc'[p] = "increment"
        /\ otp_record'[p].id = otp_record[p].id
        /\ VerifyOtpHash(plain_otp'[p], otp_record'[p].otp)

\* The comparison of a matching plaintext succeeds.
C15_Redeemed(p) ==
    (pc[p] = "increment" /\ Matches(p) /\ VerifyOtp_Increment(p)) =>
        /\ pc'[p] = "mark_used"
        /\ ret'[p] = Returned(TRUE, "", 0)

\* C15: delivery failure.  When send_otp_email returns False (a timeout
\* included), send_otp returns failure with no TTL; the record created in the
\* call stays unused, and a later verify_otp with its plaintext, within the
\* TTL and the attempts, still redeems it.
C15_DeliveryFailure ==
    [][\A p \in Procs :
          /\ C15_Result(p)
          /\ C15_Result(p)'
          /\ C15_TakenUp(p)
          /\ C15_Redeemed(p)]_vars

\* The delivery failed and time has passed, but the record is still unused
\* and within its lifetime.
C15_Witness ==
    \E p \in Procs :
        /\ C15_DeliveryFailed(p)
        /\ HoldsRow(p)
        /\ ~Row(otp_codes, otp_record[p].id).is_used
        /\ now = otp_record[p].expires_at
        /\ now > otp_record[p].created_at

(* ------------------------------- C16 ----------------------------------- *)
\* The verify_otp call inside verify_otp_and_authenticate has failed.
C16_VerifyFailed(p) ==
    Done(p, "verify_otp") /\ ~ret[p].ok

\* The orchestrator hands on verify_otp's result unchanged, with no token,
\* and writes nothing to the users table.
C16_Propagated(p) ==
    (C16_VerifyFailed(p) /\ Authenticate_GetUser(p)) =>
        /\ pc'[p] = "done"
        /\ op'[p] = "verify_otp_and_authenticate"
        /\ ret'[p] = ret[p]
        /\ token_response'[p] = NoToken
        /\ users' = users

\* A failed redemption holds no token and one of verify_otp's reasons.
C16_Failed(p) ==
    (Done(p, "verify_otp_and_authenticate") /\ ~ret[p].ok) =>
        /\ token_response[p] = NoToken
        /\ ret[p].msg \in {MsgNotFound, MsgExpired, MsgExceeded,
                           MsgInvalidRemaining, MsgInvalidMaxed}

\* The users table is written only by a redemption whose verify_otp matched
\* the code and used the record.
C16_Writer ==
    users' # users =>
        \E p \in Procs :
            /\ op[p] = "verify_otp_and_authenticate"
            /\ pc[p] \in {"create_user", "verify_user_email"}
            /\ Matches(p)
            /\ otp_record[p].is_used

\* C16: when verify_otp fails, verify_otp_and_authenticate returns failure
\* with exactly verify_otp's reason and no token, creates no user and changes
\* no user's is_email_verified.
C16_FailurePropagates ==
    [][/\ C16_Writer
       /\ \A p \in Procs : C16_Propagated(p) /\ C16_Failed(p) /\ C16_Failed(p)']_vars

\* A wrong code is refused for a user who signed in before: the reason and
\* the remaining count come back as verify_otp gave them, the user is as was.
C16_Witness ==
    \E p \in Procs :
        /\ Done(p, "verify_otp_and_authenticate")
        /\ ret[p] = Returned(FALSE, MsgInvalidRemaining, otp_max_attempts - 1)
        /\ token_response[p] = NoToken
        /\ users = {[email |-> email[p], is_email_verified |-> TRUE]}

(* ------------------------------- C17 ----------------------------------- *)
\* A successful redemption leaves exactly one user with the email, verified,
\* and returns the token of that user.
C17_Success(p) ==
    (Done(p, "verify_otp_and_authenticate") /\ ret[p].ok) =>
        /\ UserByEmail(users, email[p])
              = {[email |-> email[p], is_email_verified |-> TRUE]}
        /\ token_response[p].user = email[p]
        /\ token_response[p].access_token.sub = email[p]
        /\ token_response[p].access_token.signed

\* No two users share an email.
C17_Unique ==
    \A u1 \in users, u2 \in users : u1.email = u2.email => u1 = u2

\* A user appears only in the create_user step of a redemption whose
\* verify_otp matched the code and used the record.
C17_Created ==
    \A u \in users' :
        UserByEmail(users, u.email) = {} =>
            \E p \in Procs :
                /\ op[p] = "verify_otp_and_authenticate"
                /\ pc[p] = "create_user"
                /\ email[p] = u.email
                /\ Matches(p)
                /\ otp_record[p].is_used

\* No user is removed, and a verified user stays verified.
C17_Kept ==
    \A u \in users :
        /\ UserByEmail(users', u.email) # {}
        /\ u.is_email_verified => u \in users'

\* C17: after every successful verify_otp_and_authenticate(email, code)
\* exactly one user with that email exists, its is_email_verified is true and
\* a token for that user is returned; users are created only by a successful
\* redemption, and is_email_verified never goes back to false.
C17_Identity ==
    [][/\ C17_Created
       /\ C17_Kept
       /\ C17_Unique /\ C17_Unique'
       /\ \A p \in Procs : C17_Success(p) /\ C17_Success(p)']_vars

\* The user signs in a second time: both codes were redeemed at the first
\* attempt, and one verified user exists.
C17_Witness ==
    \E p \in Procs :
        /\ Done(p, "verify_otp_and_authenticate")
        /\ ret[p].ok
        /\ token_response[p].user = email[p]
        /\ token_response[p].access_token.sub = email[p]
        /\ token_response[p].access_token.signed
        /\ users = {[email |-> email[p], is_email_verified |-> TRUE]}
        /\ Cardinality(otp_codes) = 2
        /\ \A r \in otp_codes : r.is_used /\ r.attempts = 1

(* ------------------------------- C18 ----------------------------------- *)
\* The SELECT of cleanup_expired_otps returns the rows whose expiry is before
\* now, used or not.
C18_Selected(p) ==
    Cleanup_Select(p) =>
        otp_records'[p] = {r.id : r \in {x \in otp_codes : x.expires_at < now}}

\* The delete step removes the selected rows and nothing else, returns their
\* number, keeps every row verify_otp would not call expired, and leaves the
\* users alone.  With no time passed since the SELECT it removes exactly the
\* rows whose expiry is before now, so none is left for a second call.
C18_Deleted(p) ==
    (pc[p] = "delete" /\ Cleanup_Delete(p)) =>
        /\ otp_codes' \subseteq otp_codes
        /\ \A r \in otp_codes : r \in otp_codes' <=> r.id \notin otp_records[p]
        /\ \A r \in otp_codes : ~IsExpired(r, now) => r \in otp_codes'
        /\ \A r \in otp_codes : r \notin otp_codes' => r.expires_at < now
        /\ ret'[p] = Returned(TRUE, "", Cardinality(otp_codes \ otp_codes'))
        /\ users' = users
        /\ otp_records[p] = {r.id : r \in {x \in otp_codes : x.expires_at < now}} =>
              {x \in otp_codes' : x.expires_at < now} = {}

\* A call that finds no row with expiry before now deletes nothing and
\* returns 0.
C18_Nothing(p) ==
    (pc[p] = "delete" /\ otp_records[p] = {} /\ Cleanup_Delete(p)) =>
        /\ otp_codes' = otp_codes
        /\ ret'[p] = Returned(TRUE, "", 0)

\* C18: cleanup_expired_otps deletes exactly the records whose expiry is
\* before now, used or not, returns the number deleted and leaves every record
\* that is not yet expired and every user unchanged; a second call with no
\* time passing deletes nothing and returns 0.
C18_Cleanup ==
    [][\A p \in Procs : C18_Selected(p) /\ C18_Deleted(p) /\ C18_Nothing(p)]_vars

\* One record was deleted; the record that expires at this very instant is
\* still stored, unused, and verify_otp would still accept it.
C18_Witness ==
    \E p \in Procs :
        /\ Done(p, "cleanup_expired_otps")
        /\ ret[p] = Returned(TRUE, "", 1)
        /\ \E r \in otp_codes : ~r.is_used /\ r.expires_at = now

(* ------------------------------- C19 ----------------------------------- *)
\* C19: cleanup_expired_otps is safe to run concurrently with create_otp and
\* verify_otp.  Whatever steps of cleanup fall between the steps of a
\* verify_otp call, the call ends with a result of the decision table: it
\* never ends in an error for a row that has gone missing under it.
C19_CleanupSafe ==
    \A p \in Procs :
        (pc[p] = "done" /\ op[p] = "verify_otp") =>
            ret[p] # Raised("StaleDataError")

(* ------------------------------- C20 ----------------------------------- *)
\* C20: storage failures are surfaced as a generic failure result.  A
\* persistence error raised during send_otp or verify_otp_and_authenticate
\* comes back to the caller as a returned failure, never as an exception.
C20_GenericFailure ==
    \A p \in Procs :
        (pc[p] = "done" /\ op[p] \in {"send_otp", "verify_otp_and_authenticate"}) =>
            ~ret[p].raised

(* ------------------------------- C21 ----------------------------------- *)
\* The access token tok was returned by a successful sign-in of slot p.
C21_Issued(p, tok) ==
    /\ Done(p, "verify_otp_and_authenticate")
    /\ ret[p].ok
    /\ tok = token_response[p].access_token

\* What get_current_user gives for the presented token.
C21_Validated(tok) ==
    GetCurrentUser(tok) =>
        /\ \A p \in Procs :
              C21_Issued(p, tok) =>
                 /\ now < tok.exp =>
                       /\ current_user' = [ok |-> TRUE, detail |-> "", user |-> email[p]]
                       /\ \E u \in users : u.email = email[p]
                 /\ now > tok.exp =>
                       current_user' = [ok |-> FALSE, detail |-> MsgTokenExpired,
                                        user |-> ""]
        /\ ~tok.signed =>
              current_user' = [ok |-> FALSE, detail |-> MsgTokenInvalid, user |-> ""]
        /\ (\A u \in users : u.email # tok.sub) =>
              /\ ~current_user'.ok
              /\ current_user'.detail \in {MsgTokenInvalid, MsgUserNotFound,
                                           MsgTokenExpired}

\* C21: token round trip.  For every token a successful
\* verify_otp_and_authenticate(email, code) returned, get_current_user called
\* before the token's expiry gives exactly the user with that email; after the
\* expiry it fails with "Token has expired"; a token that does not decode or
\* names no existing user fails with a 401 detail.
C21_RoundTrip ==
    [][\A tok \in PresentedTokens : C21_Validated(tok)]_vars

\* The token of a real sign-in was presented after its lifetime and refused.
C21_Witness ==
    /\ current_user = [ok |-> FALSE, detail |-> MsgTokenExpired, user |-> ""]
    /\ \E p \in Procs :
          /\ C21_Issued(p, token_response[p].access_token)
          /\ now > token_response[p].access_token.exp

(* ------------------------------- C22 ----------------------------------- *)
\* C22: the result of a successful verify_otp_and_authenticate carries a
\* has_profile value next to the token, and the value is true exactly when a
\* user_details row exists for the user at that time.
C22_HasProfile ==
    [][\A p \in Procs :
          Authenticate_Token(p) =>
             /\ "has_profile" \in DOMAIN token_response'[p]
             /\ token_response'[p].has_profile = HasProfile(user_details, email[p])]_vars

(* ------------------------------- C23 ----------------------------------- *)
\* C23: with bypass_otp_validation set, verify_otp skips the digest
\* comparison: a call that reaches an active record (unused, not expired,
\* attempts below the limit) succeeds whatever code it presents.
C23_Bypass ==
    \A p \in Procs :
        (/\ bypass_otp_validation
         /\ Done(p, "verify_otp")
         /\ otp_record[p] # NoRecord
         /\ ret[p].msg \notin {MsgExpired, MsgExceeded}) =>
            ret[p].ok

(* ------------------------------- C24 ----------------------------------- *)
\* A call that goes on to the comparison counts one attempt more than the
\* stored row shows.
C24_Counted(p, e, c) ==
    (VerifyOtp_Select(p, e, c) /\ pc'[p] = "increment") =>
        otp_record'[p].attempts = Row(otp_codes, otp_record'[p].id).attempts + 1

\* A wrong code on an attempt below the limit stores the incremented attempts,
\* leaves the row unused and reports otp_max_attempts minus the stored value.
C24_Reported(p) ==
    (/\ pc[p] = "increment"
     /\ ~Matches(p)
     /\ otp_record[p].attempts < otp_max_attempts
     /\ VerifyOtp_Increment(p)) =>
        /\ pc'[p] = "done"
        /\ ret'[p] = Returned(FALSE, MsgInvalidRemaining,
                             otp_max_attempts - otp_record[p].attempts)
        /\ Row(otp_codes', otp_record[p].id).attempts = otp_record[p].attempts
        /\ Row(otp_codes', otp_record[p].id).attempts
              = Row(otp_codes, otp_record[p].id).attempts + 1
        /\ ~Row(otp_codes', otp_record[p].id).is_used

\* C24: remaining-attempts reporting.  Each verify_otp call with a wrong code
\* on an unused record reports otp_max_attempts minus the attempts value after
\* its increment, so four consecutive wrong codes on a fresh record report 4,
\* 3, 2, 1 and leave attempts = 4, is_used = false.
C24_RemainingAttempts ==
    [][/\ \A p \in Procs, e \in identities, c \in Codes : C24_Counted(p, e, c)
       /\ \A p \in Procs : C24_Reported(p)]_vars

\* The fourth wrong code in a row: one attempt remains.
C24_Witness ==
    \E p \in Procs :
        /\ Done(p, "verify_otp")
        /\ ret[p] = Returned(FALSE, MsgInvalidRemaining, 1)
        /\ otp_codes = {[otp_record[p] EXCEPT !.attempts = 4, !.is_used = FALSE]}
        /\ ~Matches(p)


(* ------------------------------ ChatService ----------------------------- *)
\* The user ids and titles the chat routes pass, and the session ids a
\* client may name (the last one is never a session's id).
ChatUsers == {"u1", "u2"}
Titles == {"t0", "t1"}
SessionIds == 1..(MaxSessions + 1)
Senders == {"user", "ai"}

SessionsOfAnyUser(table, session_id, user_id) ==
    {s \in table : s.id = session_id}

\* select(ChatSession).where(ChatSession.id == session_id,
\*                           ChatSession.user_id == user_id)
SessionsOf(table, session_id, user_id) ==
    {s \in table : s.id = session_id /\ s.user_id = user_id}

\* get_session: scalar_one_or_none() of that query (id is the primary key).
GetSession(table, session_id, user_id) ==
    IF SessionsOf(table, session_id, user_id) = {} THEN NoSession
    ELSE CHOOSE s \in SessionsOf(table, session_id, user_id) : TRUE

\* select(ChatMessage).where(ChatMessage.session_id == session_id)
MessagesOf(table, session_id) == {m \in table : m.session_id = session_id}

ChatFrame == UNCHANGED <<otp_codes, now, next_id, identities, serial, pc, op,
                         email, plain_otp, otp_record, otp_records, ret, users,
                         token_response, user_details, current_user,
                         bypass_otp_validation>>

\* create_session: INSERT a session of the user, commit, return it.
create_session(user_id, title) ==
    /\ chat_next_id.session <= MaxSessions
    /\ LET session == [id |-> chat_next_id.session, user_id |-> user_id,
                       title |-> title]
       IN /\ chat_sessions' = chat_sessions \cup {session}
          /\ chat_result' = ChatResult("create_session", session.id, user_id,
                                       session, {}, FALSE)
    /\ chat_next_id' = [chat_next_id EXCEPT !.session = @ + 1]
    /\ UNCHANGED chat_messages
    /\ ChatFrame

\* add_message: INSERT a message of the session (the foreign key wants the
\* session to exist), commit.  No ownership test is made here.
add_message(session_id, user_id, sender) ==
    /\ chat_next_id.message <= MaxMessages
    /\ \E s \in chat_sessions : s.id = session_id
    /\ chat_messages' = chat_messages \cup
           {[id |-> chat_next_id.message, session_id |-> session_id,
             user_id |-> IF sender = "user" THEN user_id ELSE "None",
             sender |-> sender]}
    /\ chat_next_id' = [chat_next_id EXCEPT !.message = @ + 1]
    /\ chat_result' = ChatResult("add_message", session_id, user_id,
                                 NoSession, {}, FALSE)
    /\ UNCHANGED chat_sessions
    /\ ChatFrame

get_session(session_id, user_id) ==
    /\ chat_result' = ChatResult("get_session", session_id, user_id,
                          GetSession(chat_sessions, session_id, user_id),
                          {}, FALSE)
    /\ UNCHANGED <<chat_sessions, chat_messages, chat_next_id>>
    /\ ChatFrame

\* get_session_messages: [] unless get_session finds the session.
get_session_messages(session_id, user_id) ==
    /\ chat_result' = ChatResult("get_session_messages", session_id, user_id,
                          NoSession,
                          IF GetSession(chat_sessions, session_id, user_id)
                             = NoSession
                          THEN {} ELSE MessagesOf(chat_messages, session_id),
                          FALSE)
    /\ UNCHANGED <<chat_sessions, chat_messages, chat_next_id>>
    /\ ChatFrame

\* update_session_title: None unless get_session finds the session; else
\* UPDATE its title, commit, return it.
update_session_title(session_id, user_id, title) ==
    LET session == GetSession(chat_sessions, session_id, user_id)
        updated == [session EXCEPT !.title = title]
    IN /\ IF session = NoSession
          THEN /\ chat_result' = ChatResult("update_session_title", session_id,
                                            user_id, NoSession, {}, FALSE)
               /\ UNCHANGED chat_sessions
          ELSE /\ chat_sessions' = (chat_sessions \ {session}) \cup {updated}
               /\ chat_result' = ChatResult("update_session_title", session_id,
                                            user_id, updated, {}, FALSE)
       /\ UNCHANGED <<chat_messages, chat_next_id>>
       /\ ChatFrame

\* delete_session: False unless get_session finds the session; else DELETE
\* it, and with it its chat_messages (cascade "all, delete-orphan"), commit,
\* return True.
delete_session(session_id, user_id) ==
    LET session == GetSession(chat_sessions, session_id, user_id)
    IN /\ IF session = NoSession
          THEN /\ chat_result' = ChatResult("delete_session", session_id,
                                            user_id, NoSession, {}, FALSE)
               /\ UNCHANGED <<chat_sessions, chat_messages>>
          ELSE /\ chat_sessions' = chat_sessions \ {session}
               /\ chat_messages' =
                      chat_messages \ MessagesOf(chat_messages, session_id)
               /\ chat_result' = ChatResult("delete_session", session_id,
                                            user_id, NoSession, {}, TRUE)
       /\ UNCHANGED chat_next_id
       /\ ChatFrame

NextChat == \/ \E u \in ChatUsers, t \in Titles : create_session(u, t)
            \/ \E sid \in SessionIds, u \in ChatUsers, s \in Senders :
                   add_message(sid, u, s)
            \/ \E sid \in SessionIds, u \in ChatUsers : get_session(sid, u)
            \/ \E sid \in SessionIds, u \in ChatUsers :
                   get_session_messages(sid, u)
            \/ \E sid \in SessionIds, u \in ChatUsers, t \in Titles :
                   update_session_title(sid, u, t)
            \/ \E sid \in SessionIds, u \in ChatUsers : delete_session(sid, u)

\* The chat routes of one server, called one after another.
SpecChat == Init /\ [][NextChat]_vars

(* -------------------------------- C25 ----------------------------------- *)
\* The session session_id exists and user_id is not its owner.
C25_NotOwner(session_id, user_id) ==
    \E s \in chat_sessions : s.id = session_id /\ s.user_id # user_id

C25_Untouched == /\ chat_sessions' = chat_sessions
                 /\ chat_messages' = chat_messages

\* C25: get_session, get_session_messages, update_session_title and
\* delete_session called with a user id that is not the session's owner
\* return None, an empty list, None and False, and leave the session and its
\* messages as they were; once delete_session has returned True no user gets
\* the session from get_session any more.
C25_Ownership ==
    [][\A sid \in SessionIds, u \in ChatUsers :
         /\ C25_NotOwner(sid, u) =>
              /\ get_session(sid, u) =>
                     chat_result'.session = NoSession /\ C25_Untouched
              /\ get_session_messages(sid, u) =>
                     chat_result'.messages = {} /\ C25_Untouched
              /\ \A t \in Titles : update_session_title(sid, u, t) =>
                     chat_result'.session = NoSession /\ C25_Untouched
              /\ delete_session(sid, u) =>
                     ~chat_result'.ok /\ C25_Untouched
         /\ (delete_session(sid, u) /\ chat_result'.ok) =>
                \A s \in chat_sessions' : s.id # sid
         /\ (/\ chat_result.op = "delete_session" /\ chat_result.ok
             /\ chat_result.session_id = sid
             /\ get_session(sid, u)) => chat_result'.session = NoSession
      ]_vars

\* A user who does not own a session that has a message was refused its
\* deletion, and the session and the message are still there.
C25_Witness ==
    /\ chat_result.op = "delete_session"
    /\ ~chat_result.ok
    /\ \E s \in chat_sessions :
         /\ s.id = chat_result.session_id
         /\ s.user_id # chat_result.user_id
         /\ \E m \in chat_messages : m.session_id = s.id

(* -------------------------------- C26 ----------------------------------- *)
\* A verify_otp call with the right code is made on an unused, unexpired row
\* that has otp_max_attempts - 1 attempts: it is not turned away.
C26_LastAttempt(p, e, c) ==
    (/\ VerifyOtp_Select(p, e, c)
     /\ \E r \in UnusedOtps(otp_codes, e) :
          /\ r.attempts = otp_max_attempts - 1
          /\ now <= r.expires_at
          /\ r.otp = HashOtp(c))
    => /\ pc'[p] = "increment"
       /\ ret'[p] = NoRet
       /\ HashOtp(plain_otp'[p]) = otp_record'[p].otp

\* The call that reached otp_max_attempts with the right code has succeeded
\* and left its row used with otp_max_attempts attempts.
C26_Succeeds(p) ==
    (/\ Done(p, "verify_otp")
     /\ otp_record[p] # NoRecord
     /\ Matches(p)
     /\ otp_record[p].attempts = otp_max_attempts
     /\ Row(otp_codes, otp_record[p].id).attempts = otp_max_attempts)
    => /\ ret[p] = Returned(TRUE, "", 0)
       /\ Row(otp_codes, otp_record[p].id).is_used

\* Exhaustion is declared only for a call made once the maximum had been
\* reached, or for a wrong code on the attempt that reached it.
C26_Exhaustion(p) ==
    /\ (Done(p, "verify_otp") /\ ret[p].msg = MsgExceeded) =>
           \E r \in otp_codes : r.id = otp_record[p].id
                                /\ r.attempts >= otp_max_attempts
    /\ (Done(p, "verify_otp") /\ ret[p].msg = MsgInvalidMaxed) =>
           /\ ~Matches(p)
           /\ otp_record[p].attempts = otp_max_attempts

\* C26 - Last permitted attempt: a verify_otp call with the right code made
\* when the unused, unexpired row has otp_max_attempts - 1 attempts succeeds
\* and leaves the row with otp_max_attempts attempts, used; exhaustion is
\* declared only for calls made after the maximum was reached or for a wrong
\* code on the attempt that reaches it.
C26_LastPermittedAttempt ==
    [][/\ \A p \in Procs, e \in Emails, c \in Codes : C26_LastAttempt(p, e, c)
       /\ \A p \in Procs : C26_Succeeds(p)' /\ C26_Exhaustion(p)']_vars

\* After otp_max_attempts - 1 wrong codes the right code was accepted.
C26_Witness ==
    \E p \in Procs :
        /\ Done(p, "verify_otp")
        /\ ret[p] = Returned(TRUE, "", 0)
        /\ Matches(p)
        /\ Row(otp_codes, otp_record[p].id).attempts = otp_max_attempts
        /\ Row(otp_codes, otp_record[p].id).is_used

(* -------------------------------- C27 ----------------------------------- *)
\* C27 - Record selection: a verify_otp call made while more than one row of
\* the email is unused evaluates the candidate against the most recently
\* created unused row and returns an ordinary (success, message) result.
C27_RecordSelection ==
    [][\A p \in Procs, e \in Emails, c \in Codes :
         (VerifyOtp_Select(p, e, c) /\ Cardinality(UnusedOtps(otp_codes, e)) > 1)
         => /\ ~ret'[p].raised
            /\ otp_record'[p].id \in Ids(UnusedOtps(otp_codes, e))
            /\ \A r \in UnusedOtps(otp_codes, e) :
                 r.created_at <= otp_record'[p].created_at
      ]_vars

(* -------------------------------- C28 ----------------------------------- *)
\* The sign-in steps that follow a successful verify_otp.
C28_SigningIn(p) ==
    pc[p] \in {"create_user", "verify_user_email", "get_user_details"}

\* Slot p's call has moved the row it holds from unused to used by a match.
C28_Consumed(p) ==
    /\ otp_record[p] # NoRecord
    /\ otp_record[p].email = email[p]
    /\ Matches(p)
    /\ \E r \in otp_codes : r.id = otp_record[p].id /\ r.is_used

\* The step that consumes: a successful verify_otp marks a row that was
\* unused, is of the call's email and matches the candidate, and no other.
C28_Consumes(p) ==
    (VerifyOtp_MarkUsed(p) /\ ret[p].ok) =>
        /\ \E r \in UnusedOtps(otp_codes, email[p]) :
             /\ r.id = otp_record[p].id
             /\ r.otp = HashOtp(plain_otp[p])
             /\ otp_codes' = SetUsed(otp_codes, {r.id})
        /\ C28_Consumed(p)'

\* A token comes only from the last step of a call that has consumed a row.
C28_Issues(p) ==
    (token_response'[p] # token_response[p] /\ token_response'[p] # NoToken)
        => (Authenticate_Token(p) /\ C28_Consumed(p))

\* A row is consumed once: verify_otp goes on only with an unused row, and a
\* used row stays used.
C28_Once ==
    /\ \A p \in Procs :
         (pc[p] # pc'[p] /\ pc'[p] \in {"increment", "mark_used"}
            /\ op'[p] = "verify_otp" /\ pc[p] # "increment") =>
                otp_record'[p].id \in Ids(UnusedOtps(otp_codes, email'[p]))
    /\ \A r \in otp_codes : r.is_used =>
           \A x \in otp_codes' : x.id = r.id => x.is_used

\* C28 - In a sequential run, verify_otp_and_authenticate returns a token
\* only in a call whose verify_otp step moved one row of that email from
\* unused to used by a digest match; every call issues at most one token and
\* every row is consumed at most once, so the tokens issued for an email
\* never outnumber its rows consumed by a match.
C28_TokenForConsumedCode ==
    [][/\ \A p \in Procs : C28_Consumes(p) /\ C28_Issues(p)
       /\ \A p \in Procs : (C28_SigningIn(p) \/ token_response[p] # NoToken)'
                              => C28_Consumed(p)'
       /\ \A p \in Procs : token_response'[p] # NoToken =>
              (Done(p, "verify_otp_and_authenticate") /\ ret[p].ok)'
       /\ C28_Once
      ]_vars

\* A second sign-in has returned a token after consuming a second row.
C28_Witness ==
    \E p \in Procs :
        /\ token_response[p] # NoToken
        /\ C28_Consumed(p)
        /\ \E r \in otp_codes :
             /\ r.id < otp_record[p].id
             /\ r.email = email[p]
             /\ r.is_used /\ r.attempts > 0
        /\ users # {}

(* -------------------------------- C29 ----------------------------------- *)
\* A row of the email that an earlier create_otp made (whether or not its
\* code was delivered) and the failed send_otp of slot p found unused.
C29_Earlier(p, old) ==
    /\ C15_DeliveryFailed(p)
    /\ otp_record[p] # NoRecord
    /\ old \in otp_codes
    /\ old.email = email[p]
    /\ old.id < otp_record[p].id
    /\ old.id \in otp_records[p]

\* The failed call has set every earlier row of the email to used.
C29_Invalidated(p) ==
    C15_DeliveryFailed(p) =>
        \A old \in otp_codes :
            (old.email = email[p] /\ old.id < otp_record[p].id) => old.is_used

\* A verify_otp that presents the code of an earlier row right after the
\* failed call is compared against the new row only; differing from the new
\* code, it does not match.
C29_NotCompared(p, c) ==
    (/\ \E old \in otp_codes :
           /\ C29_Earlier(p, old)
           /\ old.otp = HashOtp(c)
           /\ old.otp # otp_record[p].otp
     /\ VerifyOtp_Select(p, email[p], c)) =>
        /\ otp_record'[p].id = otp_record[p].id
        /\ ~VerifyOtpHash(plain_otp'[p], otp_record'[p].otp)

\* A candidate that does not match is refused.
C29_Refused(p) ==
    (pc[p] = "increment" /\ ~Matches(p) /\ VerifyOtp_Increment(p)) =>
        ~ret'[p].ok

C30_OtherRows(table) == {r \in table : r.email \notin identities}

\* A step of create_otp / send_otp, of verify_otp or of
\* verify_otp_and_authenticate, made for one of the calling identities.
C30_Call ==
    \E p \in Procs :
        \/ \E e \in identities : SendOtp_Select(p, e)
        \/ SendOtp_Invalidate(p)
        \/ SendOtp_Insert(p)
        \/ SendOtp_Deliver(p)
        \/ \E e \in identities, c \in Codes : VerifyOtp_Select(p, e, c)
        \/ VerifyOtp_Increment(p)
        \/ VerifyOtp_MarkUsed(p)
        \/ Authenticate_GetUser(p)
        \/ Authenticate_CreateUser(p)
        \/ Authenticate_VerifyUserEmail(p)
        \/ Authenticate_Token(p)

\* C30 - Identity isolation: create_otp, verify_otp, send_otp and
\* verify_otp_and_authenticate called for identity A leave every otp_codes
\* row (digest, expiry, attempts, used) and every users row of any other
\* identity B as it was, whatever the sequence of calls.
C30_IdentityIsolation ==
    [][C30_Call =>
         /\ C30_OtherRows(otp_codes') = C30_OtherRows(otp_codes)
         /\ C30_OtherRows(users') = C30_OtherRows(users)]_vars

\* A has requested a code and signed in with it while the code B requested
\* is still unused.
C30_Witness ==
    \E p \in Procs :
        /\ Done(p, "verify_otp_and_authenticate")
        /\ ret[p].ok
        /\ email[p] = "a@x.com"
        /\ UserByEmail(users, "a@x.com") # {}
        /\ UnusedOtps(otp_codes, "b@x.com") # {}
        /\ \A r \in otp_codes : r.email = "a@x.com" => r.is_used

============================================================================
